---- MODULE Spec2Model ----
(***************************************************************************)
(* Model of script.py: extract_frames decodes a video frame by frame and   *)
(* hands every decoded frame to a ThreadPoolExecutor whose workers run     *)
(* save_frame.  The driver thread is modelled by pc; the worker threads by *)
(* the state of every submitted future.                                    *)
(***************************************************************************)
EXTENDS Integers, Sequences, FiniteSets, TLC

(* ------------------------------ bounds -------------------------------- *)

\* longest video (number of frames cap.read() yields before it stops)
MaxFrames == 3

\* values of --threads that are tried (ThreadPoolExecutor raises for <= 0)
PoolSizes == {-1, 0, 1, 4, 16}

\* what cv2.imwrite can do with one frame: write the file and return True,
\* return False without writing, or raise cv2.error
WriteOutcomes == {"ok", "false", "raise"}

\* how cap.read() ends the stream: ret = False, or an exception
StreamEnds == {"eof", "raise"}

\* values cap.get(CAP_PROP_FPS) reports (frames per second)
FpsReports == {-1, 0, 25}

\* values cap.get(CAP_PROP_FRAME_COUNT) reports, in halves of a frame
\* (the property is a float: -3 is -1.5, 1 is 0.5, 4 is 2.0)
FrameCountReports == {-3, 0, 1, 4}

(* ------------------------------ state --------------------------------- *)

VARIABLES
    fileExists,     \* Path(video).is_file()
    threads,        \* the threads argument
    numFrames,      \* frames the stream yields before it ends
    streamEnd,      \* how the read after the last frame ends
    imwrite,        \* outcome of cv2.imwrite for every frame of the stream
    reported,       \* <<>>, or what cap.get answered:
                    \* <<CAP_PROP_FPS, CAP_PROP_FRAME_COUNT in halves>>
    pc,             \* position of the driver thread in extract_frames
    dirExists,      \* the output directory exists
    cap,            \* "none", "opened", "failed", "released"
    pos,            \* frames read from cap so far
    metadata,       \* <<>> or <<[fps, total_frames]>>
    frame_count,    \* the local frame_count
    futures,        \* the list futures: one record per submitted job
    files,          \* files written by save_frame: path -> frame
    exc,            \* an exception is propagating in the driver thread
    printed         \* messages printed by console.print, in order

inputs == <<fileExists, threads, numFrames, streamEnd, imwrite>>

vars == <<fileExists, threads, numFrames, streamEnd, imwrite, reported, pc,
          dirExists, cap, pos, metadata, frame_count, futures, files, exc,
          printed>>

(* --------------------------- pure helpers ----------------------------- *)

\* width of the zero padding in f"frame_{frame_count:04d}.jpg"
PadWidth == 4

RECURSIVE Digits(_)
\* decimal digits of a natural number, most significant first
Digits(n) == IF n < 10 THEN <<n>> ELSE Append(Digits(n \div 10), n % 10)

RECURSIVE ZeroPad(_, _)
\* format spec 0<w>d: pad with zeros on the left up to w digits, never cut
ZeroPad(ds, w) == IF Len(ds) >= w THEN ds ELSE ZeroPad(<<0>> \o ds, w)

\* mutant: the index is formatted without the zero padding
FramePath_NoPad(i) == Digits(i)

\* os.path.join(dir, f"frame_{frame_count:04d}.jpg"), as the digit string
FramePath(i) == ZeroPad(Digits(i), PadWidth)

\* int(x) for x given in halves: truncation toward zero
IntOfHalves(h) == IF h >= 0 THEN h \div 2 ELSE -((-h) \div 2)

\* default of `cap.get(cv2.CAP_PROP_FPS) or 30`
DefaultFps == 30

\* default of `int(cap.get(cv2.CAP_PROP_FRAME_COUNT)) or 1`
DefaultTotalFrames == 1

\* mutant: every non-positive value takes the default
Falsy_NonPositive(x) == x <= 0

\* Python's `x or d`: d when x is falsy (a number is falsy iff it is 0)
Falsy(x) == x = 0

OrDefault(x, d) == IF Falsy(x) THEN d ELSE x

Fps(raw) == OrDefault(raw, DefaultFps)

TotalFrames(rawHalves) == OrDefault(IntOfHalves(rawHalves), DefaultTotalFrames)

Success(n) == [kind |-> "success", frames |-> n]

Error(what) == [kind |-> "error", what |-> what]

NoFiles == [p \in {} |-> 0]

\* mutant: every job is submitted with index 0
Job_SameIndex(frame, index) ==
    [frame |-> frame, frame_count |-> 0, state |-> "queued"]

Job(frame, index) == [frame |-> frame, frame_count |-> index, state |-> "queued"]

Indices == 1..Len(futures)

Running == {i \in Indices : futures[i].state = "running"}

Queued == {i \in Indices : futures[i].state = "queued"}

Finished == {i \in Indices : futures[i].state \in {"finished", "raised"}}

Raised == {i \in Indices : futures[i].state = "raised"}

(* ------------------------------ Init ---------------------------------- *)

Init ==
    /\ fileExists \in BOOLEAN
    /\ threads \in PoolSizes
    /\ numFrames \in 0..MaxFrames
    /\ streamEnd \in StreamEnds
    /\ imwrite \in [1..numFrames -> WriteOutcomes]
    /\ reported = <<>>
    /\ pc = "check_file"
    /\ dirExists \in BOOLEAN
    /\ cap = "none"
    /\ pos = 0
    /\ metadata = <<>>
    /\ frame_count = 0
    /\ futures = <<>>
    /\ files = NoFiles
    /\ exc = FALSE
    /\ printed = <<>>

(* ------------------- the driver thread: extract_frames ---------------- *)

\* mutant: the error is printed but the return is missing
CheckFile_NoReturn ==
    /\ pc = "check_file"
    /\ IF fileExists
       THEN UNCHANGED printed
       ELSE printed' = Append(printed, Error("not_found"))
    /\ pc' = "mkdir"
    /\ UNCHANGED <<inputs, reported, dirExists, cap, pos, metadata,
                   frame_count, futures, files, exc>>

\* lines 72-74: the video path is checked first
CheckFile ==
    /\ pc = "check_file"
    /\ IF fileExists
       THEN /\ pc' = "mkdir"
            /\ UNCHANGED printed
       ELSE /\ printed' = Append(printed, Error("not_found"))
            /\ pc' = "done"
    /\ UNCHANGED <<inputs, reported, dirExists, cap, pos, metadata,
                   frame_count, futures, files, exc>>

\* mutant: the directory is never created
MakeDir_Skip ==
    /\ pc = "mkdir"
    /\ pc' = "open"
    /\ UNCHANGED <<inputs, reported, dirExists, cap, pos, metadata,
                   frame_count, futures, files, exc, printed>>

\* line 77: Path(dir).mkdir(parents=True, exist_ok=True); creating a missing
\* directory can fail (OSError), an existing one is left alone
MakeDir ==
    /\ pc = "mkdir"
    /\ \E ok \in BOOLEAN :
          IF dirExists \/ ok
          THEN /\ dirExists' = TRUE
               /\ pc' = "open"
               /\ UNCHANGED exc
          ELSE /\ exc' = TRUE
               /\ pc' = "except"
               /\ UNCHANGED dirExists
    /\ UNCHANGED <<inputs, reported, cap, pos, metadata, frame_count,
                   futures, files, printed>>

\* mutant: the open failure is printed but the return is missing
OpenVideo_NoReturn ==
    /\ pc = "open"
    /\ \E ok \in BOOLEAN :
          IF ok
          THEN /\ cap' = "opened"
               /\ UNCHANGED printed
          ELSE /\ cap' = "failed"
               /\ printed' = Append(printed, Error("open_failed"))
    /\ pc' = "metadata"
    /\ UNCHANGED <<inputs, reported, dirExists, pos, metadata, frame_count,
                   futures, files, exc>>

\* lines 80-83: cap = cv2.VideoCapture(video); if not cap.isOpened(): return
OpenVideo ==
    /\ pc = "open"
    /\ \E ok \in BOOLEAN :
          IF ok
          THEN /\ cap' = "opened"
               /\ pc' = "metadata"
               /\ UNCHANGED printed
          ELSE /\ cap' = "failed"
               /\ printed' = Append(printed, Error("open_failed"))
               /\ pc' = "done"
    /\ UNCHANGED <<inputs, reported, dirExists, pos, metadata, frame_count,
                   futures, files, exc>>

\* lines 86-87: fps and total_frames from what the handle reports
ReadMetadata ==
    /\ pc = "metadata"
    /\ \E r \in FpsReports \X FrameCountReports :
          /\ reported' = r
          /\ metadata' = <<[fps |-> Fps(r[1]),
                            total_frames |-> TotalFrames(r[2])]>>
    /\ pc' = "pool"
    /\ UNCHANGED <<inputs, dirExists, cap, pos, frame_count, futures, files,
                   exc, printed>>

\* mutant: only a negative max_workers is refused
PoolSizeValid_ZeroAllowed(n) == n >= 0

\* ThreadPoolExecutor.__init__ raises ValueError when max_workers <= 0
PoolSizeValid(n) == n > 0

\* lines 114-119: frame_count = 0, futures = [], the pool is created
CreatePool ==
    /\ pc = "pool"
    /\ frame_count' = 0
    /\ futures' = <<>>
    /\ IF PoolSizeValid(threads)
       THEN /\ pc' = "loop"
            /\ UNCHANGED exc
       ELSE /\ exc' = TRUE
            /\ pc' = "except"
    /\ UNCHANGED <<inputs, reported, dirExists, cap, pos, metadata, files,
                   printed>>

\* mutant: the loop waits for the submitted writes before the next read
CanRead_AfterWrites ==
    /\ cap = "opened"
    /\ \A i \in 1..Len(futures) : futures[i].state \in {"finished", "raised"}

\* the decode loop may ask for the next frame: while cap.isOpened()
CanRead == cap = "opened"

\* lines 120-128, one iteration: read a frame, submit save_frame for it
ReadFrame ==
    /\ pc = "loop"
    /\ CanRead
    /\ pos < numFrames
    /\ pos' = pos + 1
    /\ futures' = Append(futures, Job(pos + 1, frame_count))
    /\ frame_count' = frame_count + 1
    /\ UNCHANGED <<inputs, reported, pc, dirExists, cap, metadata, files, exc,
                   printed>>

\* lines 121-123: the read after the last frame: ret is False (break), or
\* cap.read() raises and the with blocks are left with the exception
EndOfStream ==
    /\ pc = "loop"
    /\ CanRead
    /\ pos = numFrames
    /\ IF streamEnd = "eof"
       THEN /\ pc' = "join"
            /\ UNCHANGED exc
       ELSE /\ exc' = TRUE
            /\ pc' = "shutdown"
    /\ UNCHANGED <<inputs, reported, dirExists, cap, pos, metadata,
                   frame_count, futures, files, printed>>

\* as_completed has handed out every future: all of them are done
AllCompleted == Finished = Indices

\* mutant: the success path is taken without waiting for the jobs
Join_NoWait ==
    /\ pc = "join"
    /\ pc' = "release"
    /\ UNCHANGED <<inputs, reported, dirExists, cap, pos, metadata,
                   frame_count, futures, files, exc, printed>>

\* mutant: the futures are waited for but result() is never called
Join_IgnoreResult ==
    /\ pc = "join"
    /\ AllCompleted
    /\ pc' = "shutdown"
    /\ UNCHANGED <<inputs, reported, dirExists, cap, pos, metadata,
                   frame_count, futures, files, exc, printed>>

\* lines 131-132: for future in as_completed(futures): future.result()
\* result() of a future whose job raised re-raises in the driver; the loop
\* ends normally once every future has completed without raising
Join ==
    /\ pc = "join"
    /\ \/ /\ Raised # {}
          /\ exc' = TRUE
          /\ pc' = "shutdown"
       \/ /\ Raised = {}
          /\ AllCompleted
          /\ pc' = "shutdown"
          /\ UNCHANGED exc
    /\ UNCHANGED <<inputs, reported, dirExists, cap, pos, metadata,
                   frame_count, futures, files, printed>>

\* mutant: shutdown(wait=False), the with block is left at once
PoolIdle_NoWait == TRUE

\* ThreadPoolExecutor.__exit__ is shutdown(wait=True): it returns when no
\* job is queued or running
PoolIdle == Queued = {} /\ Running = {}

\* mutant: an exception leaves the with block without waiting for the jobs
Shutdown_NoWaitOnError ==
    /\ pc = "shutdown"
    /\ exc \/ PoolIdle
    /\ pc' = IF exc THEN "except" ELSE "release"
    /\ UNCHANGED <<inputs, reported, dirExists, cap, pos, metadata,
                   frame_count, futures, files, exc, printed>>

\* line 119, leaving the with block (normally or with an exception)
Shutdown ==
    /\ pc = "shutdown"
    /\ PoolIdle
    /\ pc' = IF exc THEN "except" ELSE "release"
    /\ UNCHANGED <<inputs, reported, dirExists, cap, pos, metadata,
                   frame_count, futures, files, exc, printed>>

\* line 135: cap.release()
Release ==
    /\ pc = "release"
    /\ cap' = "released"
    /\ pc' = "success"
    /\ UNCHANGED <<inputs, reported, dirExists, pos, metadata, frame_count,
                   futures, files, exc, printed>>

\* the number put in the success message
ReportedCount == frame_count

\* line 137: the success message
PrintSuccess ==
    /\ pc = "success"
    /\ printed' = Append(printed, Success(ReportedCount))
    /\ pc' = "done"
    /\ UNCHANGED <<inputs, reported, dirExists, cap, pos, metadata,
                   frame_count, futures, files, exc>>

\* mutant: the except clause covers the loop only and the run goes on
HandleException_FallThrough ==
    /\ pc = "except"
    /\ exc
    /\ printed' = Append(printed, Error("exception"))
    /\ exc' = FALSE
    /\ pc' = "success"
    /\ UNCHANGED <<inputs, reported, dirExists, cap, pos, metadata,
                   frame_count, futures, files>>

\* lines 139-140: except Exception as e: print the error
HandleException ==
    /\ pc = "except"
    /\ exc
    /\ printed' = Append(printed, Error("exception"))
    /\ exc' = FALSE
    /\ pc' = "done"
    /\ UNCHANGED <<inputs, reported, dirExists, cap, pos, metadata,
                   frame_count, futures, files>>

(* ---------------------- the worker threads: save_frame ---------------- *)

\* mutant: one thread more than max_workers is started
WorkerFree_OneMore == Cardinality(Running) <= threads

\* a worker is free to take a job: at most max_workers threads exist
WorkerFree == Cardinality(Running) < threads

\* the work queue is FIFO: the oldest queued job is taken first
NextQueued(i) == i \in Queued /\ \A j \in Queued : i <= j

\* a worker takes a job from the queue and starts save_frame
StartJob(i) ==
    /\ NextQueued(i)
    /\ WorkerFree
    /\ futures' = [futures EXCEPT ![i].state = "running"]
    /\ UNCHANGED <<inputs, reported, pc, dirExists, cap, pos, metadata,
                   frame_count, files, exc, printed>>

\* the directory contents after cv2.imwrite(path, frame) wrote the file
WriteFile(fs, path, frame) ==
    [p \in DOMAIN fs \cup {path} |-> IF p = path THEN frame ELSE fs[p]]

\* mutant: the path is built from the driver's counter when the job runs
JobPath_LateBinding(job) == FramePath(frame_count - 1)

\* line 58: frame_path, from the index the job was submitted with
JobPath(job) == FramePath(job.frame_count)

\* lines 58-59: save_frame runs to its end: the path is built from the
\* job's index and cv2.imwrite writes the file, returns False, or raises
FinishJob(i) ==
    /\ i \in Running
    /\ LET job == futures[i]
           res == imwrite[job.frame]
       IN  /\ files' = IF res = "ok"
                       THEN WriteFile(files, JobPath(job), job.frame)
                       ELSE files
           /\ futures' = [futures EXCEPT ![i].state =
                             IF res = "raise" THEN "raised" ELSE "finished"]
    /\ UNCHANGED <<inputs, reported, pc, dirExists, cap, pos, metadata,
                   frame_count, exc, printed>>

(* --------------------------- specification ---------------------------- *)

Driver ==
    \/ CheckFile
    \/ MakeDir
    \/ OpenVideo
    \/ ReadMetadata
    \/ CreatePool
    \/ ReadFrame
    \/ EndOfStream
    \/ Join
    \/ Shutdown
    \/ Release
    \/ PrintSuccess
    \/ HandleException

Workers == \E i \in Indices : StartJob(i) \/ FinishJob(i)

Next == Driver \/ Workers

Spec == Init /\ [][Next]_vars

\* the threads are scheduled fairly: the driver goes on when it can and a
\* free worker takes the oldest queued job; nothing makes a started
\* cv2.imwrite return (there is no timeout), so FinishJob has no fairness
FairSpec ==
    /\ Spec
    /\ WF_vars(Driver)
    /\ \A i \in 1..MaxFrames : WF_vars(StartJob(i))

Done == pc = "done"

TypeOK ==
    /\ pc \in {"check_file", "mkdir", "open", "metadata", "pool", "loop",
                "join", "shutdown", "release", "success", "except", "done"}
    /\ cap \in {"none", "opened", "failed", "released"}
    /\ frame_count \in 0..numFrames
    /\ Len(futures) = frame_count
    /\ exc \in BOOLEAN

(* ------------------------------ properties ---------------------------- *)

\* the video was opened and the pool was created: the decode loop ran
LoopRan == cap \in {"opened", "released"} /\ PoolSizeValid(threads)

\* printed messages of one kind
Messages(kind) == {k \in 1..Len(printed) : printed[k].kind = kind}

\* frame_0000.jpg, frame_0001.jpg, ... written out for indices below 10
ExpectedName(i) == <<0, 0, 0, i>>

AllWritesOk == \A k \in 1..numFrames : imwrite[k] = "ok"

C2_CountMatchesFiles ==
    \A k \in Messages("success") :
        printed[k].frames = Cardinality(DOMAIN files)

RECURSIVE SequentialFiles(_)
\* the files a run leaves that saves frames 1..n one after the other, in
\* decode order (what a pool of one worker does)
SequentialFiles(n) ==
    IF n = 0 THEN NoFiles
    ELSE IF imwrite[n] = "ok"
         THEN WriteFile(SequentialFiles(n - 1), ExpectedName(n - 1), n)
         ELSE SequentialFiles(n - 1)

\* C3: for the same video and the same write outcomes, the final files
\* (names and the frame each holds) are those of the one-after-the-other
\* run, for every pool size and every schedule of the workers.
C3_SameAsSequential ==
    (Done /\ LoopRan) => files = SequentialFiles(frame_count)

C3_Witness ==
    /\ Done
    /\ threads > 1
    /\ frame_count >= 2
    /\ \E k \in 1..numFrames : imwrite[k] = "ok"
    /\ files = SequentialFiles(frame_count)

\* C4: when the video path is not a file, nothing is done but printing the
\* error: the directory is left as it was, the video is not opened, no job
\* is submitted and no file is written.
C4_MissingVideo ==
    /\ [](~fileExists =>
            /\ cap = "none"
            /\ futures = <<>>
            /\ files = NoFiles
            /\ pc \in {"check_file", "done"}
            /\ Done => printed = <<Error("not_found")>>)
    /\ [][~fileExists => dirExists' = dirExists]_vars

C4_Witness ==
    /\ Done
    /\ ~fileExists
    /\ ~dirExists
    /\ printed = <<Error("not_found")>>

\* C5: a save_frame job is submitted or running only when the output
\* directory exists.
C5_DirBeforeJobs ==
    (futures # <<>> \/ pc \in {"loop", "join", "shutdown"}) => dirExists

C5_Witness == Running # {} /\ Finished = {} /\ dirExists

\* C6 as stated: fps is 30 when the reported rate is <= 0 and total_frames
\* is 1 when the reported count is <= 0; positive values are used unchanged.
C6_Original ==
    metadata # <<>> =>
        /\ metadata[1].fps =
               IF reported[1] <= 0 THEN DefaultFps ELSE reported[1]
        /\ IF reported[2] <= 0
           THEN metadata[1].total_frames = DefaultTotalFrames
           ELSE 2 * metadata[1].total_frames = reported[2]

\* C6 amended: fps is 30 only when the reported rate is exactly 0, any
\* other rate (negative too) is kept; total_frames is the reported count
\* cut to an integer toward zero, and 1 when that integer is 0.
C6_Defaults ==
    metadata # <<>> =>
        LET m == metadata[1]
            f == reported[1]
            c == reported[2]
        IN  /\ f = 0 => m.fps = 30
            /\ f # 0 => m.fps = f
            /\ (-2 < c /\ c < 2) => m.total_frames = 1
            /\ c >= 2 => (2 * m.total_frames <= c
                            /\ c < 2 * m.total_frames + 2)
            /\ c <= -2 => (c <= 2 * m.total_frames
                             /\ 2 * m.total_frames - 2 < c)

C6_Witness ==
    /\ metadata # <<>>
    /\ reported = <<-1, -3>>
    /\ metadata[1] = [fps |-> -1, total_frames |-> -1]

\* C7: once the success message is printed, no submitted job is queued or
\* running.
C7_SuccessAfterJobs ==
    Messages("success") # {} => (Queued = {} /\ Running = {})

C7_Witness ==
    /\ Messages("success") # {}
    /\ Len(futures) >= 2
    /\ Finished = Indices

C9_Released == Done => cap # "opened"

\* C10: in the decode loop the next read is always enabled, however many
\* jobs are queued or running; the driver can only be blocked after the
\* loop, at the join.
C10_DecodeNeverWaits ==
    /\ pc = "loop" => ENABLED (ReadFrame \/ EndOfStream)
    /\ (~Done /\ ~ENABLED Driver) => pc \in {"join", "shutdown"}

C10_Witness ==
    /\ pc = "join"
    /\ numFrames >= 2
    /\ frame_count = numFrames
    /\ Finished = {}
    /\ ~ENABLED Driver

\* C11: the k-th submitted job carries index k-1 (from 0, one more per
\* decoded frame, in decode order), so no two jobs have the same index or
\* the same output path.
C11_DistinctIndices ==
    /\ frame_count = pos
    /\ \A i \in Indices :
          /\ futures[i].frame_count = i - 1
          /\ futures[i].frame = i
    /\ \A i, j \in Indices :
          i # j => JobPath(futures[i]) # JobPath(futures[j])

C11_Witness ==
    /\ Len(futures) >= 3
    /\ Cardinality(Running) >= 2
    /\ Cardinality({JobPath(futures[i]) : i \in Indices}) = Len(futures)

\* C12: at most `threads` save_frame jobs run at the same time; the others
\* stay queued.
C12_PoolBound ==
    /\ Cardinality(Running) <= (IF threads > 0 THEN threads ELSE 0)
    /\ Cardinality(Running) + Cardinality(Queued) + Cardinality(Finished)
          = Len(futures)

C12_Witness ==
    /\ threads = 1
    /\ Cardinality(Running) = 1
    /\ Cardinality(Queued) >= 2

\* C13: with fair scheduling, a run in which no write job stays running
\* for ever eventually ends with one message printed; a run in which some
\* write job never finishes never ends and never prints a message.
C13_Termination ==
    /\ []<>(Running = {}) => <>(Done /\ printed # <<>>)
    /\ <>[](Running # {}) => [](~Done /\ printed = <<>>)

C13_Witness ==
    /\ pc = "shutdown"
    /\ exc
    /\ Running # {}
    /\ ~ENABLED Driver

\* C14: when the video exists but does not open, the error is printed and
\* nothing else happens: no read, no job, no file, no success message.
C14_OpenFailure ==
    cap = "failed" =>
        /\ Done
        /\ printed = <<Error("open_failed")>>
        /\ pos = 0
        /\ frame_count = 0
        /\ futures = <<>>
        /\ files = NoFiles
        /\ metadata = <<>>

C14_Witness ==
    /\ fileExists
    /\ cap = "failed"
    /\ Done
    /\ dirExists
    /\ threads = 4
    /\ numFrames >= 1

\* C15: whenever a message has been printed (success or error) no job is
\* queued or running, and every submitted job whose write succeeds has
\* left its file, also when another job or the decode raised.
C15_NoJobLeftBehind ==
    printed # <<>> =>
        /\ PoolIdle
        /\ \A i \in Indices :
              imwrite[futures[i].frame] = "ok"
                  => ExpectedName(futures[i].frame_count) \in DOMAIN files

C15_Witness ==
    /\ Done
    /\ Len(futures) >= 3
    /\ imwrite[1] = "raise"
    /\ imwrite[2] = "ok"
    /\ imwrite[3] = "ok"
    /\ printed = <<Error("exception")>>
    /\ Cardinality(DOMAIN files) = 2

\* C16: a finished run has printed exactly one message, an error or the
\* success message, and no run ever prints more than one.
C16_OneOutcome ==
    /\ Len(printed) <= 1
    /\ Done => Len(printed) = 1
    /\ \A k \in 1..Len(printed) : printed[k].kind \in {"success", "error"}
    /\ Len(printed) = 1 => Done

C16_Witness ==
    /\ Done
    /\ Raised # {}
    /\ streamEnd = "raise"
    /\ Len(printed) = 1

\* C17: with threads <= 0 and a video that opens, creating the pool raises:
\* the error is printed, nothing is read, submitted or written, there is
\* no success message, and the output directory exists.
C17_BadPoolSize ==
    (~(threads > 0) /\ cap # "none" /\ cap # "failed") =>
        /\ pos = 0
        /\ futures = <<>>
        /\ files = NoFiles
        /\ dirExists
        /\ Messages("success") = {}
        /\ pc \in {"metadata", "pool", "except", "done"}
        /\ Done => printed = <<Error("exception")>>

C17_Witness ==
    /\ Done
    /\ threads = 0
    /\ cap = "opened"
    /\ numFrames >= 1
    /\ dirExists
    /\ printed = <<Error("exception")>>

====
